---------------------------- MODULE Spec2Model ----------------------------
(***************************************************************************)
(* Model of SingleSliceSegmentation.py (APLunch/aigt): the capture / skip  *)
(* / clear handlers of SingleSliceSegmentationWidget and the sequence      *)
(* bookkeeping of SingleSliceSegmentationLogic.                            *)
(*                                                                         *)
(* Scene modelled: one input sequence browser "In" whose master sequence   *)
(* holds numFrames image frames (frame k is the k-th image), and one       *)
(* segmentation sequence browser "Out" that records the image and the      *)
(* segmentation as two synchronized sequences (imgSeq, segSeq).  The       *)
(* image node and the segmentation node are the proxy nodes; the image     *)
(* node shows the frame selected in "In".  Item                            *)
(* numbers are 0-based as in the code; TLA+ sequences are 1-based, so item *)
(* number j of a sequence s is s[j + 1].                                   *)
(***************************************************************************)
EXTENDS Integers, Sequences, FiniteSets, TLC

\* ------------------------------------------------------------------ bounds
MaxFrames == 2      \* longest input sequence
MaxSkip == 2        \* largest value of skipImagesSpinBox
MaxSaved == 4       \* cap on the number of recorded items

\* --------------------------------------------------------------- constants
None == "<None>"                 \* Python None: a null node, an absent attribute
Browsers == {"In", "Out"}        \* the sequence browser nodes of the scene
Pixels == {1, 2}                 \* voxels of one slice
Labelmaps == SUBSET Pixels       \* a segmentation's content: its non-zero voxels
EmptyLabelmap == {}
Strokes == {{1}}                 \* what the user draws in the segment editor

VARIABLES
    inputBrowserSel,   \* ui.inputSequenceBrowserSelector.currentNode()
    segBrowserSel,     \* ui.segmentationBrowserSelector.currentNode()
    segSel,            \* ui.inputSegmentationSelector has a node selected
    imageSel,          \* ui.inputVolumeSelector has a node selected
    activeBrowser,     \* slicer.modules.sequences.toolBar().activeBrowserNode()
    numSkip,           \* ui.skipImagesSpinBox.value
    numFrames,         \* number of items of the input sequence
    sel,               \* selected item number of each browser (-1: none)
    imageFrame,        \* frame of the input sequence the image proxy node shows
    seg,               \* segmentation proxy node: [oii, content]
    imgSeq,            \* image sequence recorded in "Out": items [idx]
    segSeq,            \* segmentation sequence in "Out": items [idx, oii, content]
    convertValue,      \* ui.convertValueSpinBox.value
    volSeq,            \* the volume sequence of the last conversion: items [idx, voxels]
    conv,              \* the loop of the conversion: [pc, itemIndex, numItems]
    files,             \* the file pairs of the last export: [n, seg, frame]
    npy,               \* the arrays of the last export: [img, seg, ind, saved]
    foregroundOpacity, \* foreground opacity of the Red slice composite node
    lastForegroundOpacity,  \* self.lastForegroundOpacity of the widget
    ev                 \* what the last step did: [op, branch, log, wrapped, stored, read]

vars == <<inputBrowserSel, segBrowserSel, segSel, imageSel, activeBrowser,
          numSkip, numFrames, sel, imageFrame, seg, imgSeq, segSeq,
          convertValue, volSeq, conv, files, npy, foregroundOpacity,
          lastForegroundOpacity, ev>>

\* ----------------------------------------------------------- python str/int
Digit(d) ==
    CASE d = 0 -> "0" [] d = 1 -> "1" [] d = 2 -> "2" [] d = 3 -> "3"
      [] d = 4 -> "4" [] d = 5 -> "5" [] d = 6 -> "6" [] d = 7 -> "7"
      [] d = 8 -> "8" [] d = 9 -> "9"

RECURSIVE StrNat(_)
StrNat(n) == IF n < 10 THEN Digit(n) ELSE StrNat(n \div 10) \o Digit(n % 10)

\* str(n) of a Python int
Str(n) == IF n < 0 THEN "-" \o StrNat(0 - n) ELSE StrNat(n)

\* The strings int() is applied to in this model that it parses
ParsedInts == -1..9

\* int(s) does not raise: s is the decimal form of an integer
IsIntString(s) == \E n \in ParsedInts : Str(n) = s

\* int(s) where it does not raise
ParseInt(s) == CHOOSE n \in ParsedInts : Str(n) = s

\* ------------------------------------------------------- host: sequences
\* vtkMRMLSequenceNode.GetItemNumberFromIndexValue (exact match), -1 if absent
ItemNumberFromIndexValue(seq, v) ==
    IF \E i \in 1..Len(seq) : seq[i].idx = v
    THEN (CHOOSE i \in 1..Len(seq) : seq[i].idx = v) - 1
    ELSE -1

\* vtkMRMLSequenceNode.SetDataNodeAtValue: a copy of the node replaces the item
\* stored at index value v, or is inserted in index-value order
SetDataNodeAtValue(seq, item, v) ==
    LET n == ItemNumberFromIndexValue(seq, v)
        k == Cardinality({i \in 1..Len(seq) : seq[i].idx < v})
    IN IF n >= 0 THEN [seq EXCEPT ![n + 1] = item]
       ELSE SubSeq(seq, 1, k) \o <<item>> \o SubSeq(seq, k + 1, Len(seq))

\* vtkMRMLSequenceNode.GetNthIndexValue
GetNthIndexValue(seq, n) == IF n >= 0 /\ n < Len(seq) THEN seq[n + 1].idx ELSE -1


\* --------------------------------------------------------------- the scene
\* The part of the MRML scene the handlers read and write, as one record, so
\* that a handler is the composition of the calls it makes.
Scene == [sel |-> sel, imageFrame |-> imageFrame, seg |-> seg,
          imgSeq |-> imgSeq, segSeq |-> segSeq]

\* vtkMRMLSequenceBrowserNode.GetNumberOfItems: items of the master sequence
GetNumberOfItems(S, b) == IF b = "In" THEN numFrames ELSE Len(S.imgSeq)

\* vtkMRMLSequenceBrowserNode.GetSelectedItemNumber
GetSelectedItemNumber(S, b) == S.sel[b]

\* vtkMRMLSequenceBrowserNode.GetSequenceNode(proxy) is not None: the image is a
\* proxy node of both browsers, the segmentation only of "Out"
HasSequenceNode(b, proxy) == proxy = "image" \/ b = "Out"

\* vtkSlicerSequencesLogic.UpdateProxyNodesFromSequences: the proxy nodes of
\* browser b take the content and the attributes of the selected item
UpdateProxyNodes(S, b) ==
    LET j == S.sel[b] IN
    IF j < 0 \/ j >= GetNumberOfItems(S, b) THEN S
    ELSE IF b = "In" THEN [S EXCEPT !.imageFrame = j]
    ELSE LET v == S.imgSeq[j + 1].idx
             n == ItemNumberFromIndexValue(S.segSeq, v)
         IN [S EXCEPT !.seg = IF n < 0 THEN @
                              ELSE [oii |-> S.segSeq[n + 1].oii,
                                    content |-> S.segSeq[n + 1].content]]

\* slicer.modules.sequences.logic().UpdateAllProxyNodes(): every browser of the
\* scene in turn
UpdateAllProxyNodes(S) == UpdateProxyNodes(UpdateProxyNodes(S, "In"), "Out")

\* vtkMRMLSequenceBrowserNode.SetSelectedItemNumber: a changed item number
\* modifies the browser, which updates its proxy nodes
SetSelectedItemNumber(S, b, j) ==
    IF S.sel[b] = j THEN S ELSE UpdateProxyNodes([S EXCEPT !.sel[b] = j], b)

\* vtkMRMLSequenceBrowserNode.SelectFirstItem
SelectFirstItem(S, b) ==
    SetSelectedItemNumber(S, b, IF GetNumberOfItems(S, b) > 0 THEN 0 ELSE -1)

\* Return value of vtkMRMLSequenceBrowserNode.SelectNextItem(k), playback looped:
\* -1 on an empty sequence, item 0 when nothing was selected, otherwise the
\* item k further, modulo the length once it passes the last item
NextItemNumber(S, b, k) ==
    LET n == GetNumberOfItems(S, b)
        cur == S.sel[b]
    IN IF n = 0 THEN -1
       ELSE IF cur < 0 THEN 0
       ELSE IF cur + k >= n THEN (cur + k) % n
       ELSE cur + k

\* vtkMRMLSequenceBrowserNode.SelectNextItem(k): the scene afterwards
SelectNextItem(S, b, k) ==
    IF GetNumberOfItems(S, b) = 0 THEN S
    ELSE SetSelectedItemNumber(S, b, NextItemNumber(S, b, k))

\* Index value of a new recording: later than every recorded one
NewIndexValue(S) ==
    LET used == {S.imgSeq[i].idx : i \in 1..Len(S.imgSeq)}
                \cup {S.segSeq[i].idx : i \in 1..Len(S.segSeq)}
    IN IF used = {} THEN 0 ELSE 1 + CHOOSE m \in used : \A u \in used : u <= m

\* vtkMRMLSequenceBrowserNode.SaveProxyNodesState on "Out": a copy of each proxy
\* node is stored in its sequence at one new index value
SaveProxyNodesState(S) ==
    LET v == NewIndexValue(S) IN
    [S EXCEPT !.imgSeq = SetDataNodeAtValue(@, [idx |-> v], v),
              !.segSeq = SetDataNodeAtValue(@, [idx |-> v, oii |-> S.seg.oii,
                                                content |-> S.seg.content], v)]

\* ------------------------------------------------------------------- logic
\* captureSlice without the search of lines 1010-1015: nothing is ever found
RecordedOriginalIndex_NotFound(S) == -1

\* captureSlice, lines 1006-1015: item number of the first saved node whose
\* ORIGINAL_IMAGE_INDEX equals the segmentation's; -1 stands for the code's None
RecordedOriginalIndex(S) ==
    LET hits == {i \in 1..Len(S.segSeq) : S.segSeq[i].oii = S.seg.oii}
    IN IF hits = {} THEN -1
       ELSE (CHOOSE i \in hits : \A h \in hits : i <= h) - 1

\* SingleSliceSegmentationLogic.captureSlice(browser, segmentation, image):
\* [scene, raised, stored]; raised when inputImage is None (inputImage.GetName()
\* in the error message), stored tells which of lines 1024-1028 ran
captureSlice(S, browser, imageSelected) ==
    IF ~imageSelected THEN [scene |-> S, raised |-> TRUE, stored |-> "none"]
    ELSE IF ~HasSequenceNode(browser, "seg")
    THEN [scene |-> S, raised |-> FALSE, stored |-> "none"]
    ELSE LET rec == RecordedOriginalIndex(S) IN
         IF rec < 0
         THEN [scene |-> SaveProxyNodesState(S), raised |-> FALSE,
               stored |-> "appended"]
         ELSE LET v == GetNthIndexValue(S.imgSeq, rec) IN
              [scene |-> [S EXCEPT !.segSeq =
                              SetDataNodeAtValue(@, [idx |-> v, oii |-> S.seg.oii,
                                                     content |-> S.seg.content], v)],
               raised |-> FALSE, stored |-> "replaced"]

\* SingleSliceSegmentationLogic.eraseCurrentSegmentation: every segment's
\* labelmap is filled with 0; the attributes are not touched
eraseCurrentSegmentation(S) == [S EXCEPT !.seg.content = EmptyLabelmap]

\* selectedSegmentation.SetAttribute(ORIGINAL_IMAGE_INDEX, value)
SetOriginalImageIndex(S, value) == [S EXCEPT !.seg.oii = value]


\* ---------------------------------------------------------------- handlers
\* What a handler returns to the action that runs it: the scene afterwards,
\* the branch taken, the error logged (None if none), whether the "Sequence
\* wrapped around!" message box was shown, what captureSlice stored and the
\* attribute read at line 297
Outcome(S, branch, log, wrapped, stored, read) ==
    [scene |-> S, branch |-> branch, log |-> log, wrapped |-> wrapped,
     stored |-> stored, read |-> read]

\* lines 303-304 left out: the attribute decides alone
OriginalIndexStr_FromAttribute == seg.oii

\* lines 303-304: the index string the capture decides on
OriginalIndexStr ==
    IF activeBrowser = inputBrowserSel THEN None ELSE seg.oii

\* line 306: new segmentation (TRUE) or overwrite (FALSE)
IsNewSegmentation(str) == str = None \/ str = "None" \/ str = ""

\* lines 321, 372: the wraparound test
WrappedAround(newItemNum, currentItemNum) == newItemNum < currentItemNum

\* lines 290-292 left out: no check of the segmentation
CaptureError_NoSegmentationCheck ==
    IF inputBrowserSel = None THEN "No browser node selected!"
    ELSE IF segBrowserSel = None THEN "No segmentation sequence browser selected!"
    ELSE None

\* lines 287-295: the error onCaptureButton returns on, None if it goes on
CaptureError ==
    IF inputBrowserSel = None THEN "No browser node selected!"
    ELSE IF ~segSel THEN "No segmentation selected!"
    ELSE IF segBrowserSel = None THEN "No segmentation sequence browser selected!"
    ELSE None

\* lines 309 and 310 swapped: the segmentation is erased before it is saved
NewSegmentation_EraseFirst(S0) ==
    LET inputImageIndex == GetSelectedItemNumber(S0, inputBrowserSel)
        S1 == SetOriginalImageIndex(S0, Str(inputImageIndex))
        C == captureSlice(eraseCurrentSegmentation(S1), segBrowserSel, imageSel)
        S3 == SetOriginalImageIndex(C.scene, "None")
        currentItemNum == GetSelectedItemNumber(S3, inputBrowserSel)
        newItemNum == NextItemNumber(S3, inputBrowserSel, numSkip)
        S4 == SelectNextItem(S3, inputBrowserSel, numSkip)
    IN IF C.raised THEN Outcome(S1, "new raised", None, FALSE, "none", seg.oii)
       ELSE Outcome(S4, "new", None, WrappedAround(newItemNum, currentItemNum),
                    C.stored, seg.oii)

\* lines 307-313: the new-segmentation branch
NewSegmentation(S0) ==
    LET inputImageIndex == GetSelectedItemNumber(S0, inputBrowserSel)
        S1 == SetOriginalImageIndex(S0, Str(inputImageIndex))
        C == captureSlice(S1, segBrowserSel, imageSel)
        S2 == eraseCurrentSegmentation(C.scene)
        S3 == SetOriginalImageIndex(S2, "None")
        currentItemNum == GetSelectedItemNumber(S3, inputBrowserSel)
        newItemNum == NextItemNumber(S3, inputBrowserSel, numSkip)
        S4 == SelectNextItem(S3, inputBrowserSel, numSkip)
    IN IF C.raised THEN Outcome(S1, "new raised", None, FALSE, "none", seg.oii)
       ELSE Outcome(S4, "new", None, WrappedAround(newItemNum, currentItemNum),
                    C.stored, seg.oii)

\* lines 315-317: the overwrite branch
OverwriteSegmentation(S0) ==
    LET C == captureSlice(S0, segBrowserSel, imageSel)
        currentItemNum == GetSelectedItemNumber(C.scene, segBrowserSel)
        newItemNum == NextItemNumber(C.scene, segBrowserSel, 1)
        S1 == SelectNextItem(C.scene, segBrowserSel, 1)
    IN IF C.raised THEN Outcome(S0, "overwrite raised", None, FALSE, "none", seg.oii)
       ELSE Outcome(S1, "overwrite", None,
                    WrappedAround(newItemNum, currentItemNum), C.stored, seg.oii)

\* SingleSliceSegmentationWidget.onCaptureButton, lines 281-329
onCaptureButtonOutcome ==
    IF CaptureError # None
    THEN Outcome(Scene, "error", CaptureError, FALSE, "none", None)
    ELSE IF IsNewSegmentation(OriginalIndexStr) THEN NewSegmentation(Scene)
    ELSE OverwriteSegmentation(Scene)

\* lines 363-364: the active browser is the segmentation browser
SkipOutput(S0) ==
    IF segBrowserSel = None THEN Outcome(S0, "raised", None, FALSE, "none", None)
    ELSE LET currentItemNum == GetSelectedItemNumber(S0, segBrowserSel)
             newItemNum == NextItemNumber(S0, segBrowserSel, 1)
         IN Outcome(SelectNextItem(S0, segBrowserSel, 1), "output", None,
                    WrappedAround(newItemNum, currentItemNum), "none", None)

\* lines 366-368 with the capture of line 309 pasted in: the skip records
SkipInput_Captures(S0) ==
    LET C == captureSlice(S0, "Out", TRUE)
        S1 == eraseCurrentSegmentation(C.scene)
        currentItemNum == GetSelectedItemNumber(S1, inputBrowserSel)
        newItemNum == NextItemNumber(S1, inputBrowserSel, numSkip)
    IN Outcome(SelectNextItem(S1, inputBrowserSel, numSkip), "input", None,
               WrappedAround(newItemNum, currentItemNum), "none", None)

\* lines 366-368 with SelectNextItem() for SelectNextItem(numSkip)
SkipInput_OneItem(S0) ==
    LET S1 == eraseCurrentSegmentation(S0)
        currentItemNum == GetSelectedItemNumber(S1, inputBrowserSel)
        newItemNum == NextItemNumber(S1, inputBrowserSel, 1)
    IN Outcome(SelectNextItem(S1, inputBrowserSel, 1), "input", None,
               WrappedAround(newItemNum, currentItemNum), "none", None)

\* lines 366-368: any other active browser
SkipInput(S0) ==
    LET S1 == eraseCurrentSegmentation(S0)
        currentItemNum == GetSelectedItemNumber(S1, inputBrowserSel)
        newItemNum == NextItemNumber(S1, inputBrowserSel, numSkip)
    IN Outcome(SelectNextItem(S1, inputBrowserSel, numSkip), "input", None,
               WrappedAround(newItemNum, currentItemNum), "none", None)

\* lines 354-359: the error onSkipButton returns on, None if it goes on
SkipError ==
    IF inputBrowserSel = None THEN "No browser node selected!"
    ELSE IF ~segSel THEN "No segmentation selected!"
    ELSE None

\* SingleSliceSegmentationWidget.onSkipButton, lines 349-379
onSkipButtonOutcome ==
    IF SkipError # None THEN Outcome(Scene, "error", SkipError, FALSE, "none", None)
    ELSE IF activeBrowser = segBrowserSel THEN SkipOutput(Scene)
    ELSE SkipInput(Scene)

\* SingleSliceSegmentationWidget.onClearButton, lines 336-340
onClearButtonOutcome ==
    IF ~segSel
    THEN Outcome(Scene, "error", "No segmentation selected!", FALSE, "none", None)
    ELSE Outcome(eraseCurrentSegmentation(Scene), "erased", None, FALSE, "none", None)

\* ----------------------------------------------------------------- actions
Selectors == <<inputBrowserSel, segBrowserSel, segSel, imageSel>>

\* What only onOverlayClicked and the slice view controller write
Overlay == <<foregroundOpacity, lastForegroundOpacity>>

\* What only the conversion, the export and the overlay button write
Exports == <<convertValue, volSeq, conv, files, npy, Overlay>>

\* The scene becomes R.scene and the step is recorded in ev
Becomes(op, R) ==
    /\ sel' = R.scene.sel
    /\ imageFrame' = R.scene.imageFrame
    /\ seg' = R.scene.seg
    /\ imgSeq' = R.scene.imgSeq
    /\ segSeq' = R.scene.segSeq
    /\ ev' = [op |-> op, branch |-> R.branch, log |-> R.log, wrapped |-> R.wrapped,
              stored |-> R.stored, read |-> R.read]

\* A step of the host application: no handler of the module runs
HostStep(S, what) == Becomes("host", Outcome(S, what, None, FALSE, "none", None))

onCaptureButton ==
    /\ Len(segSeq) < MaxSaved
    /\ Becomes("capture", onCaptureButtonOutcome)
    /\ UNCHANGED <<Selectors, activeBrowser, numSkip, numFrames, Exports>>

onSkipButton ==
    /\ Becomes("skip", onSkipButtonOutcome)
    /\ UNCHANGED <<Selectors, activeBrowser, numSkip, numFrames, Exports>>

onClearButton ==
    /\ Becomes("clear", onClearButtonOutcome)
    /\ UNCHANGED <<Selectors, activeBrowser, numSkip, numFrames, Exports>>

\* The user draws in the segment editor
EditSegmentation ==
    /\ segSel
    /\ \E c \in Strokes \ {seg.content} :
          HostStep([Scene EXCEPT !.seg.content = c], "edit")
    /\ UNCHANGED <<Selectors, activeBrowser, numSkip, numFrames, Exports>>

\* The user picks the active browser in the sequences toolbar
SetActiveBrowser ==
    /\ \E b \in (Browsers \cup {None}) \ {activeBrowser} : activeBrowser' = b
    /\ HostStep(Scene, "activate")
    /\ UNCHANGED <<Selectors, numSkip, numFrames, Exports>>

\* The user moves the slider of the active browser
BrowseTo ==
    /\ activeBrowser \in Browsers
    /\ \E j \in 0..(GetNumberOfItems(Scene, activeBrowser) - 1) :
          /\ j # sel[activeBrowser]
          /\ HostStep(SetSelectedItemNumber(Scene, activeBrowser, j), "browse")
    /\ UNCHANGED <<Selectors, activeBrowser, numSkip, numFrames, Exports>>

\* ORIGINAL_IMAGE_INDEX values a loaded scene can carry on the segmentation
LoadedIndexStrings == {None, "None", "", "1"}

\* No array was exported yet
NoNumpy == [img |-> <<>>, seg |-> <<>>, ind |-> <<>>, saved |-> {}]

\* self.lastForegroundOpacity = 0.3 of __init__, in tenths
DefaultLastForegroundOpacity == 3

\* No conversion is running
Idle == [pc |-> "idle", itemIndex |-> 0, numItems |-> 0]

NoEvent == [op |-> "host", branch |-> "init", log |-> None, wrapped |-> FALSE,
            stored |-> "none", read |-> None]

\* The module opened on a scene with both browsers, nothing recorded yet; each
\* selector holds any node of its class, or none
Init ==
    /\ inputBrowserSel \in Browsers \cup {None}
    /\ segBrowserSel \in Browsers \cup {None}
    /\ segSel \in BOOLEAN
    /\ imageSel \in BOOLEAN
    /\ activeBrowser \in Browsers \cup {None}
    /\ numSkip \in 0..MaxSkip
    /\ numFrames \in 1..MaxFrames
    /\ sel = [b \in Browsers |-> IF b = "In" THEN 0 ELSE -1]
    /\ imageFrame = 0
    /\ seg \in [oii : LoadedIndexStrings, content : {EmptyLabelmap}]
    /\ imgSeq = <<>>
    /\ segSeq = <<>>
    /\ convertValue = 1
    /\ volSeq = <<>>
    /\ conv = Idle
    /\ files = {}
    /\ npy = NoNumpy
    /\ foregroundOpacity = 0
    /\ lastForegroundOpacity = DefaultLastForegroundOpacity
    /\ ev = NoEvent

Next ==
    \/ onCaptureButton
    \/ onSkipButton
    \/ onClearButton
    \/ EditSegmentation
    \/ SetActiveBrowser
    \/ BrowseTo

Spec == Init /\ [][Next]_vars


\* -------------------------------------------------------------- conversion
\* slicer.modules.segmentations.logic().ExportAllSegmentsToLabelmapNode: the
\* labelmap of a segmentation, label 1 on its voxels and 0 elsewhere
ExportAllSegmentsToLabelmapNode(content) ==
    [p \in Pixels |-> IF p \in content THEN 1 ELSE 0]

\* lines 796-802: every non-zero voxel becomes 1, then the array is multiplied
\* by value (an empty labelmap gives the all-zero array of line 802)
ScaledLabelmap(labelmap, value) ==
    [p \in Pixels |-> (IF labelmap[p] # 0 THEN 1 ELSE 0) * value]

\* lines 386-399: the error onConvertButton returns on, None if it goes on
ConvertError ==
    IF segBrowserSel = None THEN "No browser node selected!"
    ELSE IF ~segSel THEN "No segmentation selected!"
    ELSE IF ~imageSel THEN "No ultrasound volume selected!"
    ELSE None

\* lines 790-805, one iteration of the loop: the browser selects the item and
\* the volume made of the item's segmentation is stored at the index value the
\* segmentation sequence has there
ConvertItem(S, vol, itemIndex, value) ==
    LET S1 == SetSelectedItemNumber(S, "Out", itemIndex)
        content == IF itemIndex < Len(S1.segSeq) THEN S1.segSeq[itemIndex + 1].content
                   ELSE EmptyLabelmap
        arrayLabelmap == ScaledLabelmap(ExportAllSegmentsToLabelmapNode(content), value)
        indexValue == GetNthIndexValue(S1.segSeq, itemIndex)
    IN [scene |-> S1,
        vol |-> SetDataNodeAtValue(vol, [idx |-> indexValue, voxels |-> arrayLabelmap],
                                   indexValue)]

\* The conversion is in the slicer.app.processEvents() of line 806 after
\* itemIndex iterations of the numItems the loop was entered with
InEvents(itemIndex, numItems) ==
    [pc |-> "events", itemIndex |-> itemIndex, numItems |-> numItems]

\* SingleSliceSegmentationWidget.onConvertButton with
\* convertSegmentationSequenceToVolumeSequence up to the first
\* slicer.app.processEvents(): a new, empty volume sequence is added to the
\* browser, and the loop runs its first iteration over the items the browser has
onConvertButton ==
    /\ conv.pc # "events"
    /\ IF ConvertError # None
       THEN /\ Becomes("convert", Outcome(Scene, "error", ConvertError, FALSE,
                                          "none", None))
            /\ UNCHANGED <<volSeq, conv>>
       ELSE IF ~HasSequenceNode(segBrowserSel, "seg")
       THEN /\ Becomes("convert", Outcome(Scene, "error",
                          "No segmentation sequence found for segmentation",
                          FALSE, "none", None))
            /\ volSeq' = <<>>
            /\ conv' = Idle
       ELSE LET numItems == GetNumberOfItems(Scene, segBrowserSel)
                C == ConvertItem(Scene, <<>>, 0, convertValue)
            IN IF numItems = 0
               THEN /\ Becomes("convert", Outcome(Scene, "done", None, FALSE,
                                                  "none", None))
                    /\ volSeq' = <<>>
                    /\ conv' = [pc |-> "done", itemIndex |-> 0, numItems |-> 0]
               ELSE /\ Becomes("convert", Outcome(C.scene, "loop", None, FALSE,
                                                  "none", None))
                    /\ volSeq' = C.vol
                    /\ conv' = InEvents(1, numItems)
    /\ UNCHANGED <<Selectors, activeBrowser, numSkip, numFrames, convertValue, files,
                   npy, Overlay>>

\* The loop of lines 789-806 goes on after a slicer.app.processEvents(): its
\* next iteration, up to the next processEvents()
convertIteration ==
    /\ conv.pc = "events"
    /\ conv.itemIndex < conv.numItems
    /\ LET C == ConvertItem(Scene, volSeq, conv.itemIndex, convertValue)
       IN /\ Becomes("convert", Outcome(C.scene, "loop", None, FALSE, "none", None))
          /\ volSeq' = C.vol
          /\ conv' = InEvents(conv.itemIndex + 1, conv.numItems)
    /\ UNCHANGED <<Selectors, activeBrowser, numSkip, numFrames, convertValue, files,
                   npy, Overlay>>

\* The last slicer.app.processEvents() returns and the conversion ends
convertReturn ==
    /\ conv.pc = "events"
    /\ conv.itemIndex >= conv.numItems
    /\ Becomes("convert", Outcome(Scene, "done", None, FALSE, "none", None))
    /\ conv' = [conv EXCEPT !.pc = "done"]
    /\ UNCHANGED <<Selectors, activeBrowser, numSkip, numFrames, convertValue,
                   volSeq, files, npy, Overlay>>

\* Values of convertValueSpinBox
ConvertValues == {1, 255}

\* A scene with everything selected, nothing recorded yet
InitConvert ==
    /\ inputBrowserSel = "In"
    /\ segBrowserSel = "Out"
    /\ segSel = TRUE
    /\ imageSel = TRUE
    /\ activeBrowser \in Browsers
    /\ numSkip = 1
    /\ numFrames \in 1..MaxFrames
    /\ sel = [b \in Browsers |-> IF b = "In" THEN 0 ELSE -1]
    /\ imageFrame = 0
    /\ seg = [oii |-> "None", content |-> EmptyLabelmap]
    /\ imgSeq = <<>>
    /\ segSeq = <<>>
    /\ convertValue \in ConvertValues
    /\ volSeq = <<>>
    /\ conv = Idle
    /\ files = {}
    /\ npy = NoNumpy
    /\ foregroundOpacity = 0
    /\ lastForegroundOpacity = DefaultLastForegroundOpacity
    /\ ev = NoEvent

NextConvert ==
    \/ onConvertButton
    \/ convertIteration
    \/ convertReturn
    \/ onCaptureButton
    \/ onSkipButton
    \/ onClearButton
    \/ EditSegmentation
    \/ SetActiveBrowser
    \/ BrowseTo

\* The conversion, with the handlers the event loop runs before it, after it
\* and in its slicer.app.processEvents()
SpecConvert == InitConvert /\ [][NextConvert]_vars

\* A handler of the module, or the user in the host
HandlerStep ==
    \/ onCaptureButton
    \/ onSkipButton
    \/ onClearButton
    \/ EditSegmentation
    \/ SetActiveBrowser
    \/ BrowseTo

\* The conversion when slicer.app.processEvents() finds no event to dispatch
NextConvertAlone ==
    \/ onConvertButton
    \/ convertIteration
    \/ convertReturn
    \/ (conv.pc # "events" /\ HandlerStep)

SpecConvertAlone == InitConvert /\ [][NextConvertAlone]_vars

\* ------------------------------------------------------------------ export
\* lines 893-935, the loop of exportPngSequence from iteration i on: [scene,
\* files].  An item whose index cannot be selected is left by `continue`,
\* before the SelectNextItem() of line 934; the except clause catches the
\* failure of int() and a call on a None image sequence browser alike
RECURSIVE ExportPngLoop(_, _, _, _, _, _)
ExportPngLoop(S, imageBrowser, segBrowser, i, numItems, written) ==
    IF i >= numItems THEN [scene |-> S, files |-> written]
    ELSE LET originalIndex == S.seg.oii IN
         IF originalIndex # None
            /\ (imageBrowser = None \/ ~IsIntString(originalIndex))
         THEN ExportPngLoop(S, imageBrowser, segBrowser, i + 1, numItems, written)
         ELSE LET S1 == IF originalIndex = None THEN S
                        ELSE SetSelectedItemNumber(S, imageBrowser,
                                                   ParseInt(originalIndex))
                  S2 == UpdateAllProxyNodes(S1)
                  pair == [n |-> i, seg |-> S2.seg.content, frame |-> S2.imageFrame]
                  S3 == UpdateAllProxyNodes(SelectNextItem(S2, segBrowser, 1))
              IN ExportPngLoop(S3, imageBrowser, segBrowser, i + 1, numItems,
                               written \cup {pair})

\* SingleSliceSegmentationLogic.exportPngSequence, the output folder existing
exportPngSequence(S, imageBrowser, segBrowser) ==
    ExportPngLoop(SelectFirstItem(S, segBrowser), imageBrowser, segBrowser,
                  0, GetNumberOfItems(S, segBrowser), {})

\* lines 837-845, the first loop of exportNumpySlice from iteration i on, when
\* slicer.app.processEvents() has no event to dispatch: row i of the image
\* array is what the image node shows, then the browser moves on
RECURSIVE NumpyImageLoop(_, _, _, _, _)
NumpyImageLoop(S, imageBrowser, i, numItems, rows) ==
    IF i >= numItems THEN [scene |-> S, rows |-> rows]
    ELSE NumpyImageLoop(SelectNextItem(S, imageBrowser, 1), imageBrowser, i + 1,
                        numItems, Append(rows, S.imageFrame))

\* seg_seq_numpy[segmentationIndex, ...] = ...: the row a Python index names in
\* an array of numRows rows, counted from the end when negative; -1 when it
\* raises IndexError
NumpyRow(segmentationIndex, numRows) ==
    IF segmentationIndex >= 0 /\ segmentationIndex < numRows THEN segmentationIndex
    ELSE IF segmentationIndex < 0 /\ segmentationIndex + numRows >= 0
    THEN segmentationIndex + numRows
    ELSE -1

\* lines 857-868, the second loop of exportNumpySlice from iteration i on, no
\* event being dispatched: the segmentation node's labelmap goes to the row its
\* ORIGINAL_IMAGE_INDEX names and the index is appended to originalIndices;
\* int() raises on an absent attribute or one that is no number
RECURSIVE NumpySegLoop(_, _, _, _, _, _)
NumpySegLoop(S, segBrowser, i, numItems, rows, indices) ==
    IF i >= numItems
    THEN [scene |-> S, raised |-> FALSE, rows |-> rows, indices |-> indices]
    ELSE LET attribute == S.seg.oii IN
         IF attribute = None \/ ~IsIntString(attribute)
         THEN [scene |-> S, raised |-> TRUE, rows |-> rows, indices |-> indices]
         ELSE LET segmentationIndex == ParseInt(attribute)
                  row == NumpyRow(segmentationIndex, Len(rows))
              IN IF row < 0
                 THEN [scene |-> S, raised |-> TRUE, rows |-> rows,
                       indices |-> Append(indices, segmentationIndex)]
                 ELSE NumpySegLoop(SelectNextItem(S, segBrowser, 1), segBrowser,
                                   i + 1, numItems,
                                   [rows EXCEPT ![row + 1] = S.seg.content],
                                   Append(indices, segmentationIndex))

\* SingleSliceSegmentationLogic.exportNumpySlice, the output folder existing:
\* [scene, raised, npy].  With no image sequence browser line 832 raises; an
\* exception in the second loop leaves the image array saved alone
exportNumpySlice(S, imageBrowser, segBrowser) ==
    IF imageBrowser = None THEN [scene |-> S, raised |-> TRUE, npy |-> NoNumpy]
    ELSE LET I == NumpyImageLoop(SelectFirstItem(S, imageBrowser), imageBrowser, 0,
                                 GetNumberOfItems(S, imageBrowser), <<>>)
             zeros == [r \in 1..Len(I.rows) |-> EmptyLabelmap]
             G == NumpySegLoop(SelectFirstItem(I.scene, segBrowser), segBrowser, 0,
                               GetNumberOfItems(I.scene, segBrowser), zeros, <<>>)
         IN IF G.raised
            THEN [scene |-> G.scene, raised |-> TRUE,
                  npy |-> [img |-> I.rows, seg |-> <<>>, ind |-> <<>>,
                           saved |-> {"ultrasound"}]]
            ELSE [scene |-> G.scene, raised |-> FALSE,
                  npy |-> [img |-> I.rows, seg |-> G.rows, ind |-> G.indices,
                           saved |-> {"ultrasound", "segmentation", "indices"}]]

\* lines 964-974, the loop of exportTransformToWorldSequence: the scene after
\* numItems calls of SelectNextItem()
RECURSIVE TransformLoop(_, _, _)
TransformLoop(S, imageBrowser, numItems) ==
    IF numItems <= 0 THEN S
    ELSE TransformLoop(SelectNextItem(S, imageBrowser, 1), imageBrowser, numItems - 1)

\* SingleSliceSegmentationLogic.exportTransformToWorldSequence: [scene, saved];
\* transformed tells whether the image has a parent transform (line 953)
exportTransformToWorldSequence(S, imageBrowser, transformed) ==
    IF ~transformed THEN [scene |-> S, saved |-> {}]
    ELSE [scene |-> TransformLoop(SelectFirstItem(S, imageBrowser), imageBrowser,
                                  GetNumberOfItems(S, imageBrowser)),
          saved |-> {"transform"}]

\* lines 413-424: the error onExportButton returns on, None if it goes on (the
\* fourth check tests the image again)
ExportError ==
    IF ~segSel THEN "No segmentation selected!"
    ELSE IF segBrowserSel = None THEN "No segmentation sequence browser selected!"
    ELSE IF ~imageSel THEN "No image selected!"
    ELSE None

\* lines 427-438: the two exports of a checked exportTransformCheckBox; an
\* exception in the first leaves the handler before the second is called
NumpyExport(S, transformed) ==
    LET X == exportNumpySlice(S, inputBrowserSel, segBrowserSel)
        T == exportTransformToWorldSequence(X.scene, inputBrowserSel, transformed)
    IN IF X.raised THEN [scene |-> X.scene, branch |-> "numpy raised", npy |-> X.npy]
       ELSE [scene |-> T.scene, branch |-> "numpy",
             npy |-> [X.npy EXCEPT !.saved = @ \cup T.saved]]

\* SingleSliceSegmentationWidget.onExportButton: the arrays of lines 427-438
\* when exportTransformCheckBox is checked, else the PNG files of lines 440-445
onExportButton ==
    /\ conv.pc # "events"
    /\ IF ExportError # None
       THEN /\ Becomes("export", Outcome(Scene, "error", ExportError, FALSE,
                                         "none", None))
            /\ UNCHANGED <<files, npy>>
       ELSE \E checked \in BOOLEAN :
               IF checked
               THEN \E transformed \in BOOLEAN :
                       LET N == NumpyExport(Scene, transformed)
                       IN /\ Becomes("export", Outcome(N.scene, N.branch, None,
                                                       FALSE, "none", None))
                          /\ npy' = N.npy
                          /\ UNCHANGED files
               ELSE LET X == exportPngSequence(Scene, inputBrowserSel, segBrowserSel)
                    IN /\ Becomes("export", Outcome(X.scene, "png", None, FALSE,
                                                    "none", None))
                       /\ files' = X.files
                       /\ UNCHANGED npy
    /\ UNCHANGED <<Selectors, activeBrowser, numSkip, numFrames, convertValue,
                   volSeq, conv, Overlay>>

\* ------------------------------------------------- export: specification
MaxExportItems == 2      \* longest recorded sequence an export starts from

\* ORIGINAL_IMAGE_INDEX of a recorded segmentation: a frame of the input
\* sequence, or the "None" the segmentation node carries between two captures
RecordedIndexStrings == {Str(k) : k \in 0..(MaxFrames - 1)} \cup {"None"}

\* A scene with everything selected and a recorded sequence of segmentations,
\* no two of them of the same frame; nothing is selected in "Out" yet
InitExport ==
    /\ inputBrowserSel = "In"
    /\ segBrowserSel = "Out"
    /\ segSel = TRUE
    /\ imageSel = TRUE
    /\ activeBrowser \in Browsers
    /\ numSkip = 1
    /\ numFrames = MaxFrames
    /\ sel = [b \in Browsers |-> IF b = "In" THEN 0 ELSE -1]
    /\ imageFrame = 0
    /\ seg = [oii |-> "None", content |-> EmptyLabelmap]
    /\ \E len \in 0..MaxExportItems :
          \E d \in [1..len -> [oii : RecordedIndexStrings, content : {{1}, {2}}]] :
             /\ \A i, j \in 1..len :
                   (d[i].oii = d[j].oii /\ d[i].oii # "None") => i = j
             /\ segSeq = [i \in 1..len |-> [idx |-> i - 1, oii |-> d[i].oii,
                                            content |-> d[i].content]]
             /\ imgSeq = [i \in 1..len |-> [idx |-> i - 1]]
    /\ convertValue = 1
    /\ volSeq = <<>>
    /\ conv = Idle
    /\ files = {}
    /\ npy = NoNumpy
    /\ foregroundOpacity = 0
    /\ lastForegroundOpacity = DefaultLastForegroundOpacity
    /\ ev = NoEvent

NextExport ==
    \/ onExportButton
    \/ BrowseTo
    \/ SetActiveBrowser

SpecExport == InitExport /\ [][NextExport]_vars

\* The same recorded scene, each selector holding its node or none
InitExportAny ==
    /\ inputBrowserSel \in {"In", None}
    /\ segBrowserSel \in {"Out", None}
    /\ segSel \in BOOLEAN
    /\ imageSel \in BOOLEAN
    /\ activeBrowser \in Browsers
    /\ numSkip = 1
    /\ numFrames = MaxFrames
    /\ sel = [b \in Browsers |-> IF b = "In" THEN 0 ELSE -1]
    /\ imageFrame = 0
    /\ seg = [oii |-> "None", content |-> EmptyLabelmap]
    /\ \E len \in 0..MaxExportItems :
          \E d \in [1..len -> [oii : RecordedIndexStrings, content : {{1}, {2}}]] :
             /\ \A i, j \in 1..len :
                   (d[i].oii = d[j].oii /\ d[i].oii # "None") => i = j
             /\ segSeq = [i \in 1..len |-> [idx |-> i - 1, oii |-> d[i].oii,
                                            content |-> d[i].content]]
             /\ imgSeq = [i \in 1..len |-> [idx |-> i - 1]]
    /\ convertValue = 1
    /\ volSeq = <<>>
    /\ conv = Idle
    /\ files = {}
    /\ npy = NoNumpy
    /\ foregroundOpacity = 0
    /\ lastForegroundOpacity = DefaultLastForegroundOpacity
    /\ ev = NoEvent

SpecExportAny == InitExportAny /\ [][NextExport]_vars

\* A scene with everything selected, the input browser active, nothing
\* recorded yet
InitCaptureExport ==
    /\ inputBrowserSel = "In"
    /\ segBrowserSel = "Out"
    /\ segSel = TRUE
    /\ imageSel = TRUE
    /\ activeBrowser = "In"
    /\ numSkip = 1
    /\ numFrames \in 1..MaxFrames
    /\ sel = [b \in Browsers |-> IF b = "In" THEN 0 ELSE -1]
    /\ imageFrame = 0
    /\ seg = [oii |-> "None", content |-> EmptyLabelmap]
    /\ imgSeq = <<>>
    /\ segSeq = <<>>
    /\ convertValue = 1
    /\ volSeq = <<>>
    /\ conv = Idle
    /\ files = {}
    /\ npy = NoNumpy
    /\ foregroundOpacity = 0
    /\ lastForegroundOpacity = DefaultLastForegroundOpacity
    /\ ev = NoEvent

\* The export after captures: the user draws and captures with the input
\* browser active, which builds the recorded sequence the export button then
\* works on
NextCaptureExport ==
    \/ onExportButton
    \/ onCaptureButton
    \/ EditSegmentation
    \/ BrowseTo

SpecCaptureExport == InitCaptureExport /\ [][NextCaptureExport]_vars

\* ----------------------------------------------------------------- overlay
MaxOpacity == 5      \* foreground opacities told apart, in tenths

\* Values of the foreground opacity slider of the slice view controller
OpacityLevels == 0..MaxOpacity

\* line 508 left out: the opacity hidden is not remembered
OverlayClick_NoSave(currentOpacity, last) ==
    IF currentOpacity = 0 THEN [opacity |-> last, last |-> last]
    ELSE [opacity |-> 0, last |-> last]

\* lines 504-509: the foreground opacity and self.lastForegroundOpacity after
\* a click
OverlayClick(currentOpacity, last) ==
    IF currentOpacity = 0 THEN [opacity |-> last, last |-> last]
    ELSE [opacity |-> 0, last |-> currentOpacity]

\* SingleSliceSegmentationWidget.onOverlayClicked
onOverlayClicked ==
    /\ LET R == OverlayClick(foregroundOpacity, lastForegroundOpacity)
       IN /\ foregroundOpacity' = R.opacity
          /\ lastForegroundOpacity' = R.last
          /\ Becomes("overlay", Outcome(Scene,
                         IF foregroundOpacity = 0 THEN "shown" ELSE "hidden",
                         None, FALSE, "none", None))
    /\ UNCHANGED <<Selectors, activeBrowser, numSkip, numFrames, convertValue,
                   volSeq, conv, files, npy>>

\* The user moves the foreground opacity slider of the slice view
SetForegroundOpacity ==
    /\ \E x \in OpacityLevels \ {foregroundOpacity} : foregroundOpacity' = x
    /\ HostStep(Scene, "opacity")
    /\ UNCHANGED <<Selectors, activeBrowser, numSkip, numFrames, convertValue,
                   volSeq, conv, files, npy, lastForegroundOpacity>>

\* A scene with everything selected, the foreground at any opacity
InitOverlay ==
    /\ inputBrowserSel = "In"
    /\ segBrowserSel = "Out"
    /\ segSel = TRUE
    /\ imageSel = TRUE
    /\ activeBrowser \in Browsers
    /\ numSkip = 1
    /\ numFrames \in 1..MaxFrames
    /\ sel = [b \in Browsers |-> IF b = "In" THEN 0 ELSE -1]
    /\ imageFrame = 0
    /\ seg = [oii |-> "None", content |-> EmptyLabelmap]
    /\ imgSeq = <<>>
    /\ segSeq = <<>>
    /\ convertValue = 1
    /\ volSeq = <<>>
    /\ conv = Idle
    /\ files = {}
    /\ npy = NoNumpy
    /\ foregroundOpacity \in OpacityLevels
    /\ lastForegroundOpacity = DefaultLastForegroundOpacity
    /\ ev = NoEvent

\* The overlay button among the handlers that leave it alone
NextOverlay ==
    \/ onOverlayClicked
    \/ SetForegroundOpacity
    \/ onSkipButton
    \/ onClearButton
    \/ EditSegmentation
    \/ SetActiveBrowser
    \/ BrowseTo

SpecOverlay == InitOverlay /\ [][NextOverlay]_vars

\* ------------------------------------------------------------------ claims
\* The three nodes onCaptureButton checks are selected
AllSelected == inputBrowserSel # None /\ segSel /\ segBrowserSel # None

\* Item number reached from cur by advancing k items in a sequence of n items,
\* cyclically; item 0 when nothing was selected, no move in an empty sequence
AdvancedItem(n, cur, k) ==
    IF n = 0 THEN cur ELSE IF cur < 0 THEN 0 ELSE (cur + k) % n

\* In this step browser b advanced by k items and no other browser moved
AdvancedBy(b, k) ==
    /\ sel'[b] = AdvancedItem(IF b = "In" THEN numFrames ELSE Len(imgSeq'), sel[b], k)
    /\ \A o \in Browsers \ {b} : sel'[o] = sel[o]

\* In this step the segmentation sequence got the node d as item number i - 1:
\* appended after the others, or in the place of one of them
StoredAt(i, d) ==
    /\ i \in 1..Len(segSeq')
    /\ segSeq'[i].oii = d.oii
    /\ segSeq'[i].content = d.content
    /\ \/ /\ Len(segSeq') = Len(segSeq) + 1
          /\ i = Len(segSeq')
          /\ SubSeq(segSeq', 1, Len(segSeq)) = segSeq
       \/ /\ Len(segSeq') = Len(segSeq)
          /\ \A j \in 1..Len(segSeq) : j # i => segSeq'[j] = segSeq[j]

\* The segmentation node after browser b moved, when it held d before: the
\* saved item now selected if b is the browser of the segmentation, else d
ShownAfter(b, d) ==
    IF b = "Out" /\ sel'[b] # sel[b] /\ sel'[b] >= 0 /\ sel'[b] < Len(segSeq')
    THEN [oii |-> segSeq'[sel'[b] + 1].oii, content |-> segSeq'[sel'[b] + 1].content]
    ELSE d

\* C1: no two data nodes of the segmentation sequence carry the same
\* ORIGINAL_IMAGE_INDEX, whatever captures were made.
C1_UniqueOriginalIndex ==
    \A i, j \in 1..Len(segSeq) : segSeq[i].oii = segSeq[j].oii => i = j

\* a capture found its index among several saved nodes and replaced that node
C1_Witness ==
    ev.op = "capture" /\ ev.stored = "replaced" /\ Len(segSeq) >= 2

\* C2: a capture on the new-segmentation path stores a node tagged with the
\* input browser's item number at the call and holding the segment contents
\* of before the erase.
C2_NewCaptureStoresCurrent ==
    [][(ev'.op = "capture" /\ ev'.branch = "new" /\ ev'.stored # "none")
         => \E i \in 1..Len(segSeq') :
               StoredAt(i, [oii |-> Str(sel[inputBrowserSel]), content |-> seg.content])
      ]_vars

\* a new capture stored a drawn segmentation and left the node erased
C2_Witness ==
    /\ ev.op = "capture" /\ ev.branch = "new" /\ ev.stored = "appended"
    /\ segSeq[Len(segSeq)].content # EmptyLabelmap
    /\ seg.content = EmptyLabelmap

\* C3: with the input browser active in the toolbar a capture is a new
\* segmentation, tagged with the input browser's item number, whatever
\* ORIGINAL_IMAGE_INDEX the segmentation held.
C3_ActiveInputIsNew ==
    [][(ev'.op = "capture" /\ AllSelected /\ activeBrowser = inputBrowserSel)
         => /\ ev'.branch \in {"new", "new raised"}
            /\ ev'.stored # "none" =>
                 \E i \in 1..Len(segSeq') :
                    StoredAt(i, [oii |-> Str(sel[inputBrowserSel]),
                                 content |-> seg.content])
      ]_vars

\* the segmentation held a loaded index "1" and the capture stored frame 0
C3_Witness ==
    /\ ev.op = "capture" /\ ev.branch = "new" /\ ev.read = "1"
    /\ activeBrowser = inputBrowserSel
    /\ ev.stored = "appended"
    /\ segSeq[Len(segSeq)].oii = "0"

\* C4: with the segmentation browser active a capture overwrites: the
\* segmentation sequence does not grow, the segmentation is not erased, the
\* input browser stays and the segmentation browser advances by one item.
C4_ActiveOutputOverwrites ==
    [][(ev'.op = "capture" /\ AllSelected /\ imageSel
          /\ activeBrowser = segBrowserSel /\ segBrowserSel = "Out"
          /\ inputBrowserSel = "In")
         => /\ Len(segSeq') = Len(segSeq)
            /\ ev'.branch = "overwrite"
            /\ AdvancedBy(segBrowserSel, 1)
      ]_vars

\* C5: after a capture or a skip advanced a browser, the wrapped-around
\* message is shown exactly when the advance passed the last item.
C5_MessageIffWrapped ==
    [][(ev'.op \in {"capture", "skip"}
          /\ ev'.branch \in {"new", "overwrite", "input", "output"})
         => LET input == ev'.branch \in {"new", "input"}
                b == IF input THEN inputBrowserSel ELSE segBrowserSel
                k == IF input THEN numSkip ELSE 1
                n == IF b = "In" THEN numFrames ELSE Len(imgSeq')
            IN n >= 1 => (ev'.wrapped <=> (sel[b] >= 0 /\ sel[b] + k >= n))
      ]_vars

\* C6: a skip leaves the number of saved nodes and the ORIGINAL_IMAGE_INDEX
\* of each of them as they were.
C6_SkipRecordsNothing ==
    [][ev'.op = "skip"
         => /\ Len(segSeq') = Len(segSeq)
            /\ \A i \in 1..Len(segSeq) : segSeq'[i].oii = segSeq[i].oii
      ]_vars

\* a skip moved a browser while segmentations were saved
C6_Witness ==
    ev.op = "skip" /\ ev.branch \in {"input", "output"} /\ Len(segSeq) >= 1

\* The two halves of C7 for a skip that got past the checks of lines 354-359
SkipOnInput ==
    /\ AdvancedBy(inputBrowserSel, numSkip)
    /\ seg' = ShownAfter(inputBrowserSel, [seg EXCEPT !.content = EmptyLabelmap])

SkipOnOutput ==
    /\ AdvancedBy(segBrowserSel, 1)
    /\ seg' = ShownAfter(segBrowserSel, seg)

\* C7 as stated: a skip with the input browser active erases and advances the
\* input browser by the skip number; with the segmentation browser active it
\* advances that browser by one, leaves the input browser and does not erase.
C7_SkipByActiveBrowser ==
    [][(ev'.op = "skip" /\ SkipError = None)
         => /\ activeBrowser = inputBrowserSel => SkipOnInput
            /\ (activeBrowser = segBrowserSel /\ segBrowserSel # None) => SkipOnOutput
      ]_vars

\* C7 amended: as stated, when the two selectors hold different browsers.
C7_SkipByActiveBrowserDistinct ==
    [][(ev'.op = "skip" /\ SkipError = None /\ inputBrowserSel # segBrowserSel)
         => /\ activeBrowser = inputBrowserSel => SkipOnInput
            /\ (activeBrowser = segBrowserSel /\ segBrowserSel # None) => SkipOnOutput
      ]_vars

\* a skip on the input browser erased a drawn segmentation's node and moved on
C7_Witness ==
    /\ ev.op = "skip" /\ ev.branch = "input"
    /\ activeBrowser = inputBrowserSel /\ inputBrowserSel # segBrowserSel
    /\ numSkip = 2 /\ seg.content = EmptyLabelmap /\ Len(segSeq) >= 1

\* C8: a capture with no input browser, no segmentation or no segmentation
\* browser selected logs the error and changes nothing.
C8_CaptureNeedsSelection ==
    [][(ev'.op = "capture" /\ ~AllSelected)
         => /\ UNCHANGED <<sel, imageFrame, seg, imgSeq, segSeq>>
            /\ ev'.branch = "error" /\ ev'.log # None
      ]_vars

\* a capture was refused while a drawn segmentation was on the node
C8_Witness ==
    /\ ev.op = "capture" /\ ev.branch = "error"
    /\ seg.content # EmptyLabelmap /\ segBrowserSel = None


\* C9: when a conversion ends, the new volume sequence holds one node per node
\* of the segmentation sequence, at the same index value, with the value on
\* the voxels of that segmentation and 0 elsewhere.
C9_ConvertedAll ==
    (ev.op = "convert" /\ ev.branch = "done")
       => /\ Len(volSeq) = Len(segSeq)
          /\ \A i \in 1..Len(segSeq) :
                /\ volSeq[i].idx = segSeq[i].idx
                /\ volSeq[i].voxels =
                      [p \in Pixels |-> IF p \in segSeq[i].content
                                        THEN convertValue ELSE 0]


\* C10: an export writes, for each position i of the segmentation sequence,
\* the file pair numbered i from item i's segmentation and the input frame at
\* item i's ORIGINAL_IMAGE_INDEX; an item whose image cannot be selected is
\* skipped and the items after it are exported all the same.
C10_ExportsEveryItem ==
    (ev.op = "export" /\ ev.branch = "png")
       => \A i \in 0..(Len(segSeq) - 1) :
             LET item == segSeq[i + 1]
                 numbered == {f \in files : f.n = i}
             IN IF IsIntString(item.oii)
                THEN (ParseInt(item.oii) >= 0 /\ ParseInt(item.oii) < numFrames)
                        => numbered = {[n |-> i, seg |-> item.content,
                                        frame |-> ParseInt(item.oii)]}
                ELSE numbered = {}

\* C11: an export with the segmentation, the segmentation browser, the image
\* or the image sequence browser unselected logs the error, calls no export
\* routine and changes nothing.
C11_ExportNeedsSelection ==
    [][(ev'.op = "export"
          /\ (~segSel \/ segBrowserSel = None \/ ~imageSel \/ inputBrowserSel = None))
         => /\ ev'.branch = "error" /\ ev'.log # None
            /\ UNCHANGED <<sel, imageFrame, seg, imgSeq, segSeq, files, npy>>
      ]_vars

\* C12: a capture that takes the new-segmentation path (the two selectors
\* holding different browsers) leaves the segmentation empty, its
\* ORIGINAL_IMAGE_INDEX "None", and the input browser advanced by the skip
\* number.
C12_NewCaptureLeavesClean ==
    [][(ev'.op = "capture" /\ ev'.branch \in {"new", "new raised"}
          /\ inputBrowserSel # segBrowserSel)
         => /\ seg'.content = EmptyLabelmap
            /\ seg'.oii = "None"
            /\ AdvancedBy(inputBrowserSel, numSkip)
      ]_vars

\* C13: a skip either returns on a logged error or advances a browser that is
\* selected; it never calls a method on a null browser.
C13_SkipNeverOnNull ==
    [][ev'.op = "skip"
         => \/ ev'.branch = "error" /\ ev'.log # None
            \/ ev'.branch = "input" /\ inputBrowserSel # None
            \/ ev'.branch = "output" /\ segBrowserSel # None
      ]_vars

\* C14: after an export of arrays, row i of the image array is frame i, the
\* row of the segmentation array named by a saved segmentation's
\* ORIGINAL_IMAGE_INDEX is that segmentation, every other row is zero, and the
\* indices are listed in the order of the segmentation sequence.
C14_NumpyArrays ==
    (ev.op = "export" /\ ev.branch \in {"numpy", "numpy raised"})
       => /\ npy.img = [r \in 1..numFrames |-> r - 1]
          /\ Len(npy.seg) = numFrames
          /\ \A r \in 1..Len(npy.seg) :
                LET saved == {i \in 1..Len(segSeq) : segSeq[i].oii = Str(r - 1)}
                IN IF saved = {} THEN npy.seg[r] = EmptyLabelmap
                   ELSE \A i \in saved : npy.seg[r] = segSeq[i].content
          /\ Len(npy.ind) = Len(segSeq)
          /\ \A i \in 1..Len(npy.ind) : Str(npy.ind[i]) = segSeq[i].oii

\* C15: while a loop of the conversion is between two of its iterations, no
\* handler of the module runs.
C15_NoHandlerInLoop ==
    [][conv.pc = "events" => ev'.op \notin {"capture", "skip", "clear"}]_vars

\* C16: a click on a visible foreground hides it and remembers its opacity, a
\* click on a hidden one restores the opacity remembered, which no other step
\* changes and which is never 0: the foreground is visible after it.
C16_OverlayToggles ==
    /\ [](lastForegroundOpacity # 0)
    /\ [][/\ ev'.op = "overlay" =>
               IF foregroundOpacity = 0
               THEN /\ foregroundOpacity' = lastForegroundOpacity
                    /\ foregroundOpacity' # 0
                    /\ lastForegroundOpacity' = lastForegroundOpacity
               ELSE /\ foregroundOpacity' = 0
                    /\ lastForegroundOpacity' = foregroundOpacity
          /\ ev'.op # "overlay" => lastForegroundOpacity' = lastForegroundOpacity
         ]_vars

\* a click restored an opacity other than the one the widget starts with
C16_Witness ==
    /\ ev.op = "overlay" /\ ev.branch = "shown"
    /\ foregroundOpacity # DefaultLastForegroundOpacity
    /\ foregroundOpacity # 0

=============================================================================
